---- MODULE Spec2Model ----
(***************************************************************************)
(* Model of the KYC ID validator service (app/image_validator.py and the   *)
(* /analyze-id-image endpoint of app/main.py).                             *)
(*                                                                         *)
(* Representation.                                                         *)
(*   - Python strings that the code inspects character by character (the   *)
(*     claimed ID number, the claimed name, the OCR text) are sequences of *)
(*     one-character strings.                                              *)
(*   - The claimed ID type is only stripped and looked up, so it is a      *)
(*     record [lead, core, trail]: the number of leading whitespace        *)
(*     characters, the text between them, the number of trailing ones.     *)
(*   - Image signals are integers in the unit of the code's thresholds:    *)
(*     text density, edge density and face ratio in thousandths, sharpness *)
(*     brightness and contrast in their own unit, document_score in        *)
(*     hundredths.                                                         *)
(*   - Confidences are exact rationals <<numerator, denominator>> in       *)
(*     lowest terms (floating-point rounding is not modelled).             *)
(*   - An f-string is the tuple of its template and its arguments.         *)
(***************************************************************************)
EXTENDS Integers, Sequences, FiniteSets, TLC

VARIABLES
    cv2,            \* module attribute cv2: TRUE when the import succeeded
    pytesseract,    \* module attribute pytesseract, likewise
    Levenshtein,    \* module attribute Levenshtein, likewise
    pc,             \* position of the analyze_id_image invocation
    args,           \* arguments of the current analyze_id_image call
    locals,         \* local variables of the call once the probes have run
    result,         \* what the call returned or raised
    fmt,            \* the format checker applied to one (type, number) input
    http,           \* the /analyze-id-image request being served and its response
    calls,          \* analyze_id_image invocations running side by side
    debug_file,     \* the file C:/temp/name_match_debug.txt
    matcher,        \* the name matcher applied to one (OCR text, name) input
    ocr             \* one run of _extract_text_from_image

vars ==
    <<cv2, pytesseract, Levenshtein, pc, args, locals, result, fmt, http,
      calls, debug_file, matcher, ocr>>

\* Optional[T]: None, or Some(x) for a value x
None == <<>>
Some(x) == <<x>>
the(o) == o[1]

\* ------------------------------------------------------------------------
\* Bounds of the model
\* ------------------------------------------------------------------------

\* longest run of digits in a claimed ID number
MaxDigits == 17

\* longest claimed ID number enumerated character by character
MaxShortLen == 3

\* longest string given to the name normalization
MaxNameLen == 4

\* ------------------------------------------------------------------------
\* Exact rational arithmetic
\* ------------------------------------------------------------------------

Abs(n) == IF n < 0 THEN -n ELSE n

RECURSIVE GCD(_, _)
GCD(a, b) == IF b = 0 THEN a ELSE GCD(b, a % b)

\* n/d in lowest terms, d > 0
Rat(n, d) ==
    LET g == GCD(Abs(n), Abs(d))
        s == IF d < 0 THEN -1 ELSE 1
    IN  <<(s * n) \div g, (s * d) \div g>>

RLe(a, b) == a[1] * b[2] <= b[1] * a[2]
RLt(a, b) == a[1] * b[2] < b[1] * a[2]
RAdd(a, b) == Rat(a[1] * b[2] + b[1] * a[2], a[2] * b[2])
RSub(a, b) == Rat(a[1] * b[2] - b[1] * a[2], a[2] * b[2])
RMul(a, b) == Rat(a[1] * b[1], a[2] * b[2])
RMin(a, b) == IF RLe(a, b) THEN a ELSE b
RMax(a, b) == IF RLe(b, a) THEN a ELSE b

\* ------------------------------------------------------------------------
\* Strings
\* ------------------------------------------------------------------------

DigitChars == {"0", "1", "2", "3", "4", "5", "6", "7", "8", "9"}

\* a string known by its surrounding whitespace and the text in between
Str(lead, core, trail) == [lead |-> lead, core |-> core, trail |-> trail]

\* Python truthiness of a str | None argument held as characters
Truthy(o) == o # None /\ Len(the(o)) > 0

\* Python truthiness of a str | None argument held as lead/core/trail
TruthyType(o) == o # None /\ (the(o).lead + the(o).trail > 0 \/ the(o).core # "")

\* str.strip() of a claimed ID type
strip(s) == s.core

\* re.sub(r'\D', '', s): the digits of s, in order
RECURSIVE digits_only(_)
digits_only(s) ==
    IF s = <<>> THEN <<>>
    ELSE IF Head(s) \in DigitChars
         THEN <<Head(s)>> \o digits_only(Tail(s))
         ELSE digits_only(Tail(s))

\* ------------------------------------------------------------------------
\* ID type configuration
\* ------------------------------------------------------------------------

ID_DIGIT_REQUIREMENTS ==
    ( "National ID" :> 16 @@ "SSS" :> 10 @@ "UMID" :> 12 @@ "GSIS" :> 11
      @@ "PRC ID" :> 7 @@ "Driver's License" :> 11 @@ "Passport" :> 9
      @@ "PhilHealth" :> 12 @@ "Voter's ID" :> 9 @@ "TIN ID" :> 9 )

aliases ==
    ( "UMID (Unified Multi-Purpose ID)" :> "UMID"
      @@ "PRC ID (Professional License)" :> "PRC ID"
      @@ "National ID (PhilSys)" :> "National ID"
      @@ "Driver's License" :> "Driver's License"
      @@ "Drivers License" :> "Driver's License" )

_normalize_id_type(id_type) ==
    IF ~TruthyType(id_type) THEN "Others"
    ELSE LET normalized == strip(the(id_type))
         IN  IF normalized \in DOMAIN aliases THEN aliases[normalized] ELSE normalized

\* the comparison accepting any number with enough digits
DigitCountAtLeast(found, expected) == found >= expected

\* the digit-count comparison of _validate_id_number_format
DigitCountOk(found, expected) == found = expected

\* (is_valid, detail_message)
_validate_id_number_format(id_number, id_type) ==
    IF ~Truthy(id_number)
    THEN <<TRUE, [text |-> "No ID number provided for format check."]>>
    ELSE LET found == Len(digits_only(the(id_number)))
         IN  IF id_type \notin DOMAIN ID_DIGIT_REQUIREMENTS
             THEN <<TRUE, [text |-> "No digit requirement defined for {}.",
                           id_type |-> id_type]>>
             ELSE LET expected == ID_DIGIT_REQUIREMENTS[id_type]
                  IN  IF DigitCountOk(found, expected)
                      THEN <<TRUE, [text |-> "{} number has correct {}-digit format.",
                                    id_type |-> id_type, expected |-> expected]>>
                      ELSE <<FALSE,
                             [text |-> "{} number must have exactly {} digits (found {} digits in '{}').",
                              id_type |-> id_type, expected |-> expected,
                              found |-> found, id_number |-> the(id_number)]>>

\* ------------------------------------------------------------------------
\* Messages
\* ------------------------------------------------------------------------

\* a literal message, and an f-string with its arguments
Msg(text) == [text |-> text]
MsgType(text, id_type) == [text |-> text, id_type |-> id_type]
MsgConfidence(text, confidence) == [text |-> text, confidence |-> confidence]

\* ------------------------------------------------------------------------
\* Name matching
\* ------------------------------------------------------------------------

UpperToLower ==
    ( "A" :> "a" @@ "B" :> "b" @@ "C" :> "c" @@ "D" :> "d" @@ "E" :> "e"
      @@ "F" :> "f" @@ "G" :> "g" @@ "H" :> "h" @@ "I" :> "i" @@ "J" :> "j"
      @@ "K" :> "k" @@ "L" :> "l" @@ "M" :> "m" @@ "N" :> "n" @@ "O" :> "o"
      @@ "P" :> "p" @@ "Q" :> "q" @@ "R" :> "r" @@ "S" :> "s" @@ "T" :> "t"
      @@ "U" :> "u" @@ "V" :> "v" @@ "W" :> "w" @@ "X" :> "x" @@ "Y" :> "y"
      @@ "Z" :> "z" )

UpperChars == DOMAIN UpperToLower
LowerChars == {UpperToLower[c] : c \in UpperChars}
WhitespaceChars == {" ", "\n", "\t"}

\* str.lower() of one character
lower_char(c) == IF c \in UpperChars THEN UpperToLower[c] ELSE c

\* str.strip() of a character sequence
RECURSIVE lstrip(_)
lstrip(s) ==
    IF s # <<>> /\ Head(s) \in WhitespaceChars THEN lstrip(Tail(s)) ELSE s

RECURSIVE rstrip(_)
rstrip(s) ==
    IF s # <<>> /\ s[Len(s)] \in WhitespaceChars
    THEN rstrip(SubSeq(s, 1, Len(s) - 1))
    ELSE s

strip_chars(s) == rstrip(lstrip(s))

\* re.sub(r'[^a-zA-Z\s]', '', name) followed by lower()
RECURSIVE letters_and_spaces_lower(_)
letters_and_spaces_lower(s) ==
    IF s = <<>> THEN <<>>
    ELSE IF Head(s) \in UpperChars \cup LowerChars \cup WhitespaceChars
         THEN <<lower_char(Head(s))>> \o letters_and_spaces_lower(Tail(s))
         ELSE letters_and_spaces_lower(Tail(s))

\* a normalization that trims before it removes the other characters
_normalize_name_trim_first(name) == letters_and_spaces_lower(strip_chars(name))

_normalize_name(name) == strip_chars(letters_and_spaces_lower(name))

\* str.split(): the maximal runs of non-whitespace characters, in order
RECURSIVE split_from(_, _, _)
split_from(s, cur, acc) ==
    IF s = <<>>
    THEN IF cur = <<>> THEN acc ELSE Append(acc, cur)
    ELSE IF Head(s) \in WhitespaceChars
         THEN split_from(Tail(s), <<>>, IF cur = <<>> THEN acc ELSE Append(acc, cur))
         ELSE split_from(Tail(s), Append(cur, Head(s)), acc)

split(s) == split_from(s, <<>>, <<>>)

\* str.split('\n'): the pieces between newlines, empty pieces kept
RECURSIVE split_lines_from(_, _, _)
split_lines_from(s, cur, acc) ==
    IF s = <<>> THEN Append(acc, cur)
    ELSE IF Head(s) = "\n"
         THEN split_lines_from(Tail(s), <<>>, Append(acc, cur))
         ELSE split_lines_from(Tail(s), Append(cur, Head(s)), acc)

split_lines(s) == split_lines_from(s, <<>>, <<>>)

startswith(t, prefix) ==
    Len(prefix) <= Len(t) /\ SubSeq(t, 1, Len(prefix)) = prefix

Max2(a, b) == IF a >= b THEN a ELSE b

\* one row of the longest-common-subsequence table: row[j + 1] is the length
\* of the longest common subsequence of the characters of a read so far and
\* the first j characters of b
RECURSIVE lcs_row(_, _, _, _)
lcs_row(prev, ch, b, cur) ==
    LET j == Len(cur)
    IN  IF j > Len(b) THEN cur
        ELSE lcs_row(prev, ch, b,
                     Append(cur, IF ch = b[j] THEN prev[j] + 1
                                 ELSE Max2(prev[j + 1], cur[j])))

RECURSIVE lcs_rows(_, _, _)
lcs_rows(a, b, prev) ==
    IF a = <<>> THEN prev[Len(b) + 1]
    ELSE lcs_rows(Tail(a), b, lcs_row(prev, Head(a), b, <<0>>))

lcs_length(a, b) == lcs_rows(a, b, [j \in 1..(Len(b) + 1) |-> 0])

\* Levenshtein.ratio(a, b): (lensum - distance) / lensum, where the distance
\* counts a substitution as 2, i.e. 2 * lcs / lensum, and 1 for two empty strings
Levenshtein_ratio(a, b) ==
    IF Len(a) + Len(b) = 0 THEN Rat(1, 1)
    ELSE Rat(2 * lcs_length(a, b), Len(a) + Len(b))

\* max(ratios, default=0.0) over a set of rationals
RECURSIVE RMaxOf(_)
RMaxOf(S) ==
    IF S = {} THEN Rat(0, 1)
    ELSE LET x == CHOOSE y \in S : TRUE
         IN  RMax(x, RMaxOf(S \ {x}))

Range(f) == {f[i] : i \in DOMAIN f}

\* whether one claimed token is matched against the OCR tokens
token_matched(token, ocr_tokens) ==
    IF token \in ocr_tokens THEN TRUE
    ELSE IF Len(token) = 1
         THEN \E t \in ocr_tokens : startswith(t, token)
         ELSE IF Len(token) >= 3
              THEN \/ \E t \in ocr_tokens : startswith(t, token)
                   \/ RLe(Rat(82, 100),
                          RMaxOf({Levenshtein_ratio(token, t) : t \in ocr_tokens}))
              ELSE FALSE

\* each claimed token compared with the OCR token at the same position only
match_ratio_in_order(ocr_text, user_name) ==
    LET user_tokens == split(_normalize_name(user_name))
        ocr_tokens == split(_normalize_name(ocr_text))
        matched == {i \in DOMAIN user_tokens :
                       i \in DOMAIN ocr_tokens
                       /\ token_matched(user_tokens[i], {ocr_tokens[i]})}
    IN  IF user_tokens # <<>> THEN Rat(Cardinality(matched), Len(user_tokens))
        ELSE Rat(0, 1)

\* len(matched_tokens) / len(user_tokens)
match_ratio(ocr_text, user_name) ==
    LET user_tokens == split(_normalize_name(user_name))
        ocr_tokens == Range(split(_normalize_name(ocr_text)))
        matched == {i \in DOMAIN user_tokens : token_matched(user_tokens[i], ocr_tokens)}
    IN  IF user_tokens # <<>> THEN Rat(Cardinality(matched), Len(user_tokens))
        ELSE Rat(0, 1)

\* the best whole-name similarity over the OCR lines long enough to compare
max_similarity(ocr_text, user_name) ==
    LET user_normalized == _normalize_name(user_name)
        lines == split_lines(ocr_text)
        sims == {Levenshtein_ratio(user_normalized, _normalize_name(lines[i])) :
                    i \in {k \in DOMAIN lines :
                             10 * Len(_normalize_name(lines[k])) >= 4 * Len(user_normalized)}}
    IN  RMaxOf(sims)

\* an unusable OCR text reported as a mismatch
ocr_failed_mismatch ==
    <<FALSE, Rat(5, 10),
      Msg("Name verification unavailable (OCR extraction failed - manual review required).")>>

\* the result for a name whose OCR text is unusable
ocr_failed_match ==
    <<TRUE, Rat(2, 10),
      Msg("Name verification unavailable (OCR extraction failed - manual review required).")>>

\* a matcher whose mismatches report the whole-name similarity alone
_match_name_similarity_on_mismatch(ocr_text, user_name) ==
    IF ~Truthy(user_name)
    THEN <<TRUE, Rat(5, 10), Msg("Name verification skipped (no name provided).")>>
    ELSE IF Len(strip_chars(ocr_text)) < 5
    THEN ocr_failed_match
    ELSE IF ~Levenshtein
    THEN <<TRUE, Rat(5, 10),
           Msg("Name matching library not available (manual verification required).")>>
    ELSE IF split(_normalize_name(the(user_name))) = <<>>
    THEN <<TRUE, Rat(5, 10), Msg("User name format issue (manual verification required).")>>
    ELSE LET ratio == match_ratio(ocr_text, the(user_name))
             similarity == max_similarity(ocr_text, the(user_name))
             confidence == RMax(ratio, similarity)
         IN  IF RLe(Rat(60, 100), ratio) \/ RLe(Rat(65, 100), similarity)
             THEN <<TRUE, confidence,
                    MsgConfidence("Name match found (confidence: {:.0%}).", confidence)>>
             ELSE <<FALSE, similarity,
                    Msg("Name mismatch detected (ID may not belong to applicant).")>>

\* (is_match, confidence, detail)
_match_name(ocr_text, user_name) ==
    IF ~Truthy(user_name)
    THEN <<TRUE, Rat(5, 10), Msg("Name verification skipped (no name provided).")>>
    ELSE IF Len(strip_chars(ocr_text)) < 5
    THEN ocr_failed_match
    ELSE IF ~Levenshtein
    THEN <<TRUE, Rat(5, 10),
           Msg("Name matching library not available (manual verification required).")>>
    ELSE IF split(_normalize_name(the(user_name))) = <<>>
    THEN <<TRUE, Rat(5, 10), Msg("User name format issue (manual verification required).")>>
    ELSE LET ratio == match_ratio(ocr_text, the(user_name))
             similarity == max_similarity(ocr_text, the(user_name))
             confidence == RMax(ratio, similarity)
         IN  IF RLe(Rat(60, 100), ratio) \/ RLe(Rat(65, 100), similarity)
             THEN <<TRUE, confidence,
                    MsgConfidence("Name match found (confidence: {:.0%}).", confidence)>>
             ELSE <<FALSE, confidence,
                    Msg("Name mismatch detected (ID may not belong to applicant).")>>

\* ------------------------------------------------------------------------
\* analyze_id_image: signals, score, checklist
\* ------------------------------------------------------------------------

Check(name, status, detail) == [name |-> name, status |-> status, detail |-> detail]

ImageAnalysisResult(status, category, message, reasons, checks, confidence) ==
    [status |-> status, category |-> category, message |-> message,
     reasons |-> reasons, checks |-> checks, confidence |-> confidence]

has_card_portrait(m) == 30 <= m.largest_face_ratio /\ m.largest_face_ratio <= 450
severe_blur(m) == m.sharpness < 35
soft_blur(m) == m.sharpness < 55
poor_lighting(m) == m.brightness < 45 \/ m.brightness > 230
low_text_presence(m) == m.text_density < 8

\* the selfie signal requiring the low-text threshold 0.008 instead of 0.015
selfie_signal_low_text(m) ==
    /\ m.largest_face_ratio >= 80
    /\ ~m.has_document_shape
    /\ m.text_density < 8

selfie_signal(m) ==
    /\ m.largest_face_ratio >= 80
    /\ ~m.has_document_shape
    /\ m.text_density < 15

screenshot_like_signal(m) ==
    /\ ~m.has_document_shape
    /\ ~has_card_portrait(m)
    /\ m.text_density >= 25
    /\ m.edge_density < 35
    /\ m.sharpness >= 45

\* the additive score before clamping, in hundredths
raw_document_score(m) ==
      (IF m.has_document_shape THEN 25 ELSE 0)
    + (IF m.text_density >= 12 THEN 30 ELSE IF m.text_density >= 8 THEN 15 ELSE 0)
    + (IF m.sharpness >= 60 THEN 20 ELSE IF m.sharpness >= 40 THEN 10 ELSE 0)
    + (IF m.contrast >= 25 THEN 10 ELSE 0)
    + (IF m.edge_density >= 30 THEN 10 ELSE 0)
    + (IF has_card_portrait(m) THEN 15 ELSE 0)
    - (IF selfie_signal(m) THEN 10 ELSE 0)
    - (IF screenshot_like_signal(m) THEN 25 ELSE 0)
    - (IF severe_blur(m) THEN 20 ELSE IF soft_blur(m) THEN 8 ELSE 0)
    - (IF poor_lighting(m) THEN 8 ELSE 0)

\* a score bounded below only
clamp_score_from_below(x) == IF x < 0 THEN 0 ELSE x

\* max(0.0, min(1.0, document_score)), in hundredths
clamp_score(x) == IF x < 0 THEN 0 ELSE IF x > 100 THEN 100 ELSE x

document_score(m) == clamp_score(raw_document_score(m))

\* the seven checks every analysed image gets
image_checks(m) ==
    << Check("Card Boundary",
             IF m.has_document_shape THEN "pass" ELSE "warn",
             IF m.has_document_shape THEN Msg("Clear ID card edges detected.")
             ELSE Msg("No clear full-card boundary detected.")),
       Check("Printed Details",
             IF m.text_density >= 12 THEN "pass"
             ELSE IF m.text_density >= 8 THEN "warn" ELSE "fail",
             IF m.text_density >= 12 THEN Msg("Readable printed details detected.")
             ELSE IF m.text_density >= 8
                  THEN Msg("Some printed details detected, clarity limited.")
                  ELSE Msg("Very low readable text detected.")),
       Check("Sharpness",
             IF severe_blur(m) THEN "fail" ELSE IF soft_blur(m) THEN "warn" ELSE "pass",
             IF severe_blur(m) THEN Msg("Image is too blurry.")
             ELSE IF soft_blur(m) THEN Msg("Image is slightly blurry.")
                  ELSE Msg("Image sharpness is acceptable.")),
       Check("Lighting",
             IF poor_lighting(m) THEN "warn" ELSE "pass",
             IF poor_lighting(m) THEN Msg("Lighting may affect verification accuracy.")
             ELSE Msg("Lighting is acceptable.")),
       Check("Selfie Signal",
             IF selfie_signal(m) THEN "fail" ELSE "pass",
             IF selfie_signal(m)
             THEN Msg("Dominant face without card features (selfie-like).")
             ELSE Msg("No selfie-only signal detected.")),
       Check("Card Portrait",
             IF has_card_portrait(m) THEN "pass" ELSE "warn",
             IF has_card_portrait(m) THEN Msg("Portrait area consistent with ID layout.")
             ELSE Msg("No clear card-portrait region detected.")),
       Check("Screenshot Signal",
             IF screenshot_like_signal(m) THEN "fail" ELSE "pass",
             IF screenshot_like_signal(m)
             THEN Msg("Image appears to be a screenshot or non-ID content.")
             ELSE Msg("No screenshot/non-ID signal detected.")) >>

\* the "ID Number Format" entry appended whether or not a number was claimed
id_number_checks_always(id_number, id_format) ==
    <<Check("ID Number Format", IF id_format[1] THEN "pass" ELSE "fail", id_format[2])>>

\* the "ID Number Format" entry, appended when a number was claimed
id_number_checks(id_number, id_format) ==
    IF Truthy(id_number)
    THEN <<Check("ID Number Format",
                 IF id_format[1] THEN "pass" ELSE "fail", id_format[2])>>
    ELSE <<>>

\* the "Name Match" entry, appended when the name matcher ran
name_match_checks(name_match_result) ==
    IF name_match_result # None
    THEN <<Check("Name Match",
                 IF the(name_match_result)[1] THEN "pass" ELSE "fail",
                 the(name_match_result)[3])>>
    ELSE <<>>

\* ------------------------------------------------------------------------
\* analyze_id_image: the decision cascade
\* ------------------------------------------------------------------------

Hundredths(n) == Rat(n, 100)
Thousandths(n) == Rat(n, 1000)

\* max(lo, x): the upper cap forgotten
ClampedBelowOnly(hi, lo, x) == RMax(Hundredths(lo), x)

\* min(hi, max(lo, x)) with hi and lo in hundredths
Clamped(hi, lo, x) == RMin(Hundredths(hi), RMax(Hundredths(lo), x))

Invalid(category, reasons, checks, confidence) ==
    ImageAnalysisResult("Invalid", category, reasons[1], reasons, checks, confidence)

Valid(reasons, checks, confidence) ==
    ImageAnalysisResult("Valid", "identification_card", reasons[1], reasons, checks,
                        confidence)

selfie_result(f) ==
    Invalid("selfie",
            << MsgType("The image attached is a selfie and not a valid {} image.",
                       f.id_type_phrase),
               Msg("Detected a dominant face region without a clear card boundary.") >>,
            f.checks,
            RMin(Hundredths(99), RAdd(Hundredths(65), Thousandths(f.m.largest_face_ratio))))

id_format_result(f) ==
    Invalid("unknown",
            << f.id_format[2],
               MsgType("Please verify the {} number is entered correctly.",
                       f.id_type_phrase) >>,
            f.checks, Hundredths(95))

name_mismatch_result(f) ==
    Invalid("unknown",
            << MsgType("The name on the {} does not match the applicant's name.",
                       f.id_type_phrase),
               Msg("The submitted ID may belong to a different person.") >>,
            f.checks,
            Clamped(96, 75, RAdd(Hundredths(85),
                                 RMul(the(f.name_match_result)[2], Rat(1, 10)))))

severe_blur_result(f) ==
    Invalid("unknown",
            << MsgType("Image is too blurry to reliably verify the submitted {}.",
                       f.id_type_phrase),
               Msg("Retake the photo with better focus and avoid motion blur.") >>,
            f.checks,
            Clamped(95, 45, RSub(Rat(1, 1), Rat(f.m.sharpness, 110))))

screenshot_result(f) ==
    Invalid("unknown",
            << MsgType("The uploaded image appears to be a screenshot or non-{} content.",
                       f.id_type_phrase),
               Msg("Please upload a clear photo of the physical ID card, not a screen capture or chat image.") >>,
            f.checks,
            Clamped(96, 60, RAdd(Hundredths(78), Thousandths(f.m.text_density))))

low_text_result(f) ==
    Invalid("unknown",
            << MsgType("The image lacks readable printed details expected on a {}.",
                       f.id_type_phrase),
               Msg("Capture a full card image with clearer text and visible card features.") >>,
            f.checks,
            Clamped(92, 48, RSub(Hundredths(75), Hundredths(document_score(f.m)))))

valid_boundary_result(f) ==
    Valid(<< MsgType("Image features are consistent with a valid {} card capture.",
                     f.id_type_phrase),
             Msg("Card boundary and printed details were detected successfully.") >>,
          f.checks, Clamped(98, 55, Hundredths(document_score(f.m))))

valid_portrait_result(f) ==
    Valid(<< MsgType("Image features are consistent with a valid {} card capture.",
                     f.id_type_phrase),
             Msg("Card boundary is partially visible; text and security details are sufficient.") >>,
          f.checks, Clamped(95, 55, Hundredths(document_score(f.m))))

valid_landscape_result(f) ==
    Valid(<< MsgType("Image features are consistent with a valid {} card capture.",
                     f.id_type_phrase),
             Msg("Printed details and card features detected (landscape orientation).") >>,
          f.checks, Clamped(92, 55, Hundredths(document_score(f.m))))

default_result(f) ==
    Invalid("unknown",
            << MsgType("The submitted {} image failed document-quality checks.",
                       f.id_type_phrase),
               Msg("Please submit a clearer full-card photo with readable details.") >>,
            f.checks,
            Clamped(92, 45, RSub(Hundredths(70), Hundredths(document_score(f.m)))))

\* the conditions of the ten return statements, as the code writes them
selfie_cond(f) == selfie_signal(f.m)
id_format_cond(f) == Truthy(f.id_number) /\ ~f.id_format[1]
\* a name rule that lets every mismatch of confidence up to 0.7 through
name_mismatch_cond_above_seven_tenths(f) ==
    /\ f.name_match_result # None
    /\ ~the(f.name_match_result)[1]
    /\ RLt(Rat(7, 10), the(f.name_match_result)[2])

name_mismatch_cond(f) ==
    /\ f.name_match_result # None
    /\ ~the(f.name_match_result)[1]
    /\ RLt(Rat(2, 10), the(f.name_match_result)[2])
severe_blur_cond(f) == severe_blur(f.m)
screenshot_cond(f) == screenshot_like_signal(f.m)
low_text_cond(f) == low_text_presence(f.m) /\ ~f.m.has_document_shape
\* the first Valid rule asking for a score of 0.75
valid_boundary_cond_strict(f) == f.m.has_document_shape /\ document_score(f.m) >= 75
valid_boundary_cond(f) == f.m.has_document_shape /\ document_score(f.m) >= 45
valid_portrait_cond(f) ==
    has_card_portrait(f.m) /\ f.m.text_density >= 20 /\ document_score(f.m) >= 55
valid_landscape_cond(f) ==
    /\ f.m.text_density >= 12
    /\ f.m.edge_density >= 35
    /\ ~selfie_signal(f.m)
    /\ document_score(f.m) >= 40

\* the cascade with the severe-blur exit placed after the valid path
decide_blur_after_valid(f) ==
    IF selfie_cond(f) THEN selfie_result(f)
    ELSE IF id_format_cond(f) THEN id_format_result(f)
    ELSE IF name_mismatch_cond(f) THEN name_mismatch_result(f)
    ELSE IF screenshot_cond(f) THEN screenshot_result(f)
    ELSE IF low_text_cond(f) THEN low_text_result(f)
    ELSE IF valid_boundary_cond(f) THEN valid_boundary_result(f)
    ELSE IF valid_portrait_cond(f) THEN valid_portrait_result(f)
    ELSE IF valid_landscape_cond(f) THEN valid_landscape_result(f)
    ELSE IF severe_blur_cond(f) THEN severe_blur_result(f)
    ELSE default_result(f)

\* the cascade with the name-mismatch exit placed before the format exit
decide_name_before_format(f) ==
    IF selfie_cond(f) THEN selfie_result(f)
    ELSE IF name_mismatch_cond(f) THEN name_mismatch_result(f)
    ELSE IF id_format_cond(f) THEN id_format_result(f)
    ELSE IF severe_blur_cond(f) THEN severe_blur_result(f)
    ELSE IF screenshot_cond(f) THEN screenshot_result(f)
    ELSE IF low_text_cond(f) THEN low_text_result(f)
    ELSE IF valid_boundary_cond(f) THEN valid_boundary_result(f)
    ELSE IF valid_portrait_cond(f) THEN valid_portrait_result(f)
    ELSE IF valid_landscape_cond(f) THEN valid_landscape_result(f)
    ELSE default_result(f)

\* the early exits and the valid path, in the order of the code
decide(f) ==
    IF selfie_cond(f) THEN selfie_result(f)
    ELSE IF id_format_cond(f) THEN id_format_result(f)
    ELSE IF name_mismatch_cond(f) THEN name_mismatch_result(f)
    ELSE IF severe_blur_cond(f) THEN severe_blur_result(f)
    ELSE IF screenshot_cond(f) THEN screenshot_result(f)
    ELSE IF low_text_cond(f) THEN low_text_result(f)
    ELSE IF valid_boundary_cond(f) THEN valid_boundary_result(f)
    ELSE IF valid_portrait_cond(f) THEN valid_portrait_result(f)
    ELSE IF valid_landscape_cond(f) THEN valid_landscape_result(f)
    ELSE default_result(f)

\* the missing-dependency result carrying a failing check of its own
dependency_missing_with_check ==
    ImageAnalysisResult("Invalid", "unknown",
        Msg("Image analysis dependency is not available on the server."),
        <<Msg("Image analysis dependency is not available on the server.")>>,
        <<Check("Image Analysis", "fail",
                Msg("Image analysis dependency is not available on the server."))>>,
        Rat(0, 1))

\* the result returned at once when OpenCV could not be imported
dependency_missing_result ==
    ImageAnalysisResult("Invalid", "unknown",
        Msg("Image analysis dependency is not available on the server."),
        <<Msg("Image analysis dependency is not available on the server.")>>,
        <<>>, Rat(0, 1))

\* id_type_phrase = normalized_id_type or "ID"
id_type_phrase(normalized_id_type) ==
    IF normalized_id_type # "" THEN normalized_id_type ELSE "ID"

\* name_match_result = _match_name(ocr_text, user_name) if user_name else None
name_match(ocr_text, user_name) ==
    IF Truthy(user_name) THEN Some(_match_name(ocr_text, user_name)) ELSE None

\* the local variables of analyze_id_image once every probe has run
frame(phrase, id_number, id_format, name_match_result, ocr_text, m) ==
    [ m |-> m, id_type_phrase |-> phrase, id_number |-> id_number,
      id_format |-> id_format, name_match_result |-> name_match_result,
      ocr_text |-> ocr_text,
      checks |-> image_checks(m) \o id_number_checks(id_number, id_format)
                                 \o name_match_checks(name_match_result) ]

\* ------------------------------------------------------------------------
\* Inputs
\* ------------------------------------------------------------------------

\* the i-th digit of a run of digits: 1, 2, ..., 9, 0, 1, ...
DigitAt(i) ==
    << "1", "2", "3", "4", "5", "6", "7", "8", "9", "0" >>[((i - 1) % 10) + 1]

\* n digits
DigitRun(n) == [i \in 1..n |-> DigitAt(i)]

\* n digits in groups of four separated by dashes, as in 1234-5678-9012-3456
RECURSIVE Dashed(_)
Dashed(n) ==
    IF n = 0 THEN <<>>
    ELSE IF n > 1 /\ (n - 1) % 4 = 0
         THEN Dashed(n - 1) \o <<"-", DigitAt(n)>>
         ELSE Dashed(n - 1) \o <<DigitAt(n)>>

\* n digits between two letters, as in a passport number
Lettered(n) == <<"P">> \o DigitRun(n) \o <<"A">>

\* every string of at most n characters over the alphabet
RECURSIVE StringsUpTo(_, _)
StringsUpTo(alphabet, n) ==
    IF n = 0 THEN {<<>>}
    ELSE LET shorter == StringsUpTo(alphabet, n - 1)
         IN  shorter \cup {Append(s, c) : s \in shorter, c \in alphabet}

\* claimed ID numbers given to the format checker
FormatNumbers ==
    {None}
    \cup {Some(s) : s \in StringsUpTo({"7", "-", "A"}, MaxShortLen)}
    \cup {Some(DigitRun(n)) : n \in 0..MaxDigits}
    \cup {Some(Dashed(n)) : n \in 0..MaxDigits}
    \cup {Some(Lettered(n)) : n \in 0..MaxDigits}

\* claimed ID types given to the format checker: the configured types, the
\* alias keys, the labels the request schema accepts, unpadded and padded
TypeCores ==
    DOMAIN ID_DIGIT_REQUIREMENTS \cup DOMAIN aliases
    \cup {"Philippine Passport", "SSS ID", "GSIS ID", "PhilHealth ID", "Postal ID",
          "Senior Citizen ID", "PWD ID", "Others", ""}

FormatTypes ==
    {None} \cup {Some(Str(pad, core, pad)) : pad \in 0..1, core \in TypeCores}

\* claimed ID types and numbers given to analyze_id_image
IdTypeInputs ==
    { None, Some(Str(1, "", 1)), Some(Str(0, "National ID (PhilSys)", 1)) }

IdNumberInputs ==
    { None, Some(<<>>), Some(<<"1", "2", "3", "4">>), Some(Dashed(16)) }

TypeAndNumberInputs ==
    { p \in IdTypeInputs \X IdNumberInputs :
        p[1] = Some(Str(1, "", 1)) => p[2] = None }

\* claimed names given to analyze_id_image
UserNameInputs ==
    { None, Some(<<>>), Some(<<"A", "l", " ", "B", "o">>) }

\* what the text-extraction engine may return for an image
OcrTexts ==
    { <<" ", "A", "L", " ", "\n">>,
      <<"B", "O", ",", " ", "A", "L">>,
      <<"A", "l", "a", "n", " ", "B", "e", "e">>,
      <<"C", "y", " ", "D", "e", "e", "1">> }

\* values on both sides of every threshold the code compares a signal with
BrightnessValues == {45, 231}
ContrastValues == {24, 25}
SharpnessValues == {20, 35, 40, 45, 55, 80}
EdgeDensityValues == {0, 30, 35}
TextDensityValues == {5, 8, 12, 15, 20, 25, 1000}
FaceRatioValues == {0, 30, 80, 300, 451}

\* what the probes may measure on a decoded image
Measurements ==
    [ brightness : BrightnessValues, contrast : ContrastValues,
      sharpness : SharpnessValues, edge_density : EdgeDensityValues,
      text_density : TextDensityValues, largest_face_ratio : FaceRatioValues,
      has_document_shape : BOOLEAN ]

\* ------------------------------------------------------------------------
\* The engine as a state machine
\* ------------------------------------------------------------------------

NoArgs == [called |-> FALSE]
NoLocals == [probed |-> FALSE]
NoResult == [kind |-> "none"]
NoFormat == [stage |-> "none"]
NoRequest == [stage |-> "none"]
NoMatcher == [stage |-> "none"]
NoOcr == [stage |-> "none"]

\* the invocations that may overlap in time
Invocations == {1, 2}

NoCalls == [i \in Invocations |-> [pc |-> "idle"]]
NoFile == [writable |-> FALSE, content |-> <<>>]

Returned(value) == [kind |-> "returned", value |-> value]
Raised(error) == [kind |-> "raised", error |-> error]

\* which of the three optional imports succeeded: every combination
Installations ==
    << <<TRUE, TRUE, TRUE>>, <<TRUE, TRUE, FALSE>>, <<TRUE, FALSE, TRUE>>,
       <<TRUE, FALSE, FALSE>>, <<FALSE, TRUE, TRUE>>, <<FALSE, TRUE, FALSE>>,
       <<FALSE, FALSE, TRUE>>, <<FALSE, FALSE, FALSE>> >>

Init ==
    /\ \E i \in DOMAIN Installations :
          /\ cv2 = Installations[i][1]
          /\ pytesseract = Installations[i][2]
          /\ Levenshtein = Installations[i][3]
    /\ pc = "idle"
    /\ args = NoArgs
    /\ locals = NoLocals
    /\ result = NoResult
    /\ fmt = NoFormat
    /\ http = NoRequest
    /\ calls = NoCalls
    /\ debug_file = NoFile
    /\ matcher = NoMatcher
    /\ ocr = NoOcr

\* _extract_text_from_image as analyze_id_image sees it: skipped without a
\* claimed name, empty without the OCR capability, else what the engine reads
OcrOutputs(user_name) ==
    IF Truthy(user_name) /\ pytesseract THEN OcrTexts ELSE {<<>>}

\* what _download_image does for a URL: urlopen raises (URLError), the bytes
\* do not decode (ValueError), or a decoded image comes back
DownloadErrors == {"URLError", "ValueError"}

\* the download did not give an image: the error leaves analyze_id_image
download_failed(error) == Raised(error)

\* one call analyze_id_image(image_url, id_type, user_name, id_number), from
\* its arguments to its return or raise
analyze_id_image(id_type, user_name, id_number) ==
    /\ args' = [called |-> TRUE, id_type |-> id_type,
                user_name |-> user_name, id_number |-> id_number]
    /\ IF ~cv2
       THEN /\ locals' = NoLocals
            /\ result' = Returned(dependency_missing_result)
       ELSE \/ \E error \in DownloadErrors :
                  /\ locals' = [probed |-> FALSE, download |-> error]
                  /\ result' = download_failed(error)
            \/ \E ocr_text \in OcrOutputs(user_name),
                  normalized_id_type \in {_normalize_id_type(id_type)} :
                  \E name_match_result \in {name_match(ocr_text, user_name)},
                     id_format \in {_validate_id_number_format(
                                        id_number, normalized_id_type)},
                     m \in Measurements :
                     \E f \in {frame(id_type_phrase(normalized_id_type), id_number,
                                     id_format, name_match_result, ocr_text, m)} :
                        /\ locals' = [probed |-> TRUE, f |-> f]
                        /\ result' = Returned(decide(f))

\* a direct call of the engine with any of its four arguments
AnalyzeIdImage ==
    /\ pc = "idle"
    /\ \E <<id_type, id_number>> \in TypeAndNumberInputs, user_name \in UserNameInputs :
          analyze_id_image(id_type, user_name, id_number)
    /\ pc' = "done"
    /\ UNCHANGED <<cv2, pytesseract, Levenshtein, fmt, http, calls, debug_file, matcher, ocr>>

\* the caller takes the result; the engine keeps nothing of the call
Return ==
    /\ pc = "done"
    /\ pc' = "idle"
    /\ args' = NoArgs
    /\ locals' = NoLocals
    /\ result' = NoResult
    /\ UNCHANGED <<cv2, pytesseract, Levenshtein, fmt, http, calls, debug_file, matcher, ocr>>

Next == AnalyzeIdImage \/ Return

Spec == Init /\ [][Next]_vars

\* ------------------------------------------------------------------------
\* The format checker on its own
\* ------------------------------------------------------------------------

InitFormat ==
    /\ cv2 = TRUE
    /\ pytesseract = TRUE
    /\ Levenshtein = TRUE
    /\ pc = "idle"
    /\ args = NoArgs
    /\ locals = NoLocals
    /\ result = NoResult
    /\ http = NoRequest
    /\ calls = NoCalls
    /\ debug_file = NoFile
    /\ matcher = NoMatcher
    /\ ocr = NoOcr
    /\ \E id_type \in FormatTypes, id_number \in FormatNumbers :
          fmt = [stage |-> "claimed", id_type |-> id_type, id_number |-> id_number]

\* normalized_id_type = _normalize_id_type(id_type), then
\* _validate_id_number_format(id_number, normalized_id_type)
CheckFormat ==
    /\ fmt.stage = "claimed"
    /\ LET normalized_id_type == _normalize_id_type(fmt.id_type)
           checked == _validate_id_number_format(fmt.id_number, normalized_id_type)
       IN  fmt' = [stage |-> "checked", id_type |-> fmt.id_type,
                   id_number |-> fmt.id_number,
                   normalized_id_type |-> normalized_id_type,
                   is_valid |-> checked[1], detail |-> checked[2]]
    /\ UNCHANGED <<cv2, pytesseract, Levenshtein, pc, args, locals, result, http,
                   calls, debug_file, matcher, ocr>>

NextFormat == CheckFormat

SpecFormat == InitFormat /\ [][NextFormat]_vars

\* ------------------------------------------------------------------------
\* The /analyze-id-image endpoint
\* ------------------------------------------------------------------------

\* the labels ImageValidationRequest.id_type accepts
SupportedIDType ==
    { "Philippine Passport", "Driver's License", "SSS ID", "GSIS ID", "UMID",
      "PhilHealth ID", "TIN ID", "Postal ID", "Voter's ID", "PRC ID",
      "Senior Citizen ID", "PWD ID", "National ID", "Others" }

\* request bodies that pass validation: id_type is one of the labels
\* ("Others" when left out), user_name a string or null
Payloads ==
    [ id_type : {Some(Str(0, core, 0)) :
                    core \in {"Others", "National ID", "Philippine Passport"}},
      user_name : UserNameInputs ]

\* ImageValidationResponse(...): the constructor validates its fields and
\* raises when one is outside its declared type or range
ImageValidationResponse(status, category, message, reasons, checks, confidence) ==
    IF /\ status \in {"Valid", "Invalid"}
       /\ category \in {"identification_card", "selfie", "unknown"}
       /\ \A i \in DOMAIN checks : checks[i].status \in {"pass", "warn", "fail"}
       /\ RLe(Rat(0, 1), confidence) /\ RLe(confidence, Rat(1, 1))
    THEN Returned([status |-> status, category |-> category, message |-> message,
                   reasons |-> reasons, checks |-> checks, confidence |-> confidence])
    ELSE Raised("ValidationError")

\* ImageAnalysisCheck(name=check["name"], status=..., detail=...) for each check
ImageAnalysisChecks(checks) ==
    [i \in DOMAIN checks |->
        Check(checks[i].name, checks[i].status, checks[i].detail)]

fallback_message ==
    Msg("Unable to analyze the attached image. Please verify the image URL and try again.")

\* the response built in the except branch
fallback_response ==
    ImageValidationResponse(
        "Invalid", "unknown", fallback_message, <<fallback_message>>,
        <<Check("Image Fetch", "fail",
                Msg("Unable to fetch or decode the uploaded image URL."))>>,
        Rat(0, 1))

\* an endpoint that lets the engine's error through
endpoint_propagates(outcome) ==
    IF outcome.kind = "raised" THEN outcome
    ELSE ImageValidationResponse(
             outcome.value.status, outcome.value.category, outcome.value.message,
             outcome.value.reasons, ImageAnalysisChecks(outcome.value.checks),
             outcome.value.confidence)

\* the try/except of the handler applied to what the engine did
endpoint_response(outcome) ==
    IF outcome.kind = "raised" THEN fallback_response
    ELSE LET translated ==
                 ImageValidationResponse(
                     outcome.value.status, outcome.value.category,
                     outcome.value.message, outcome.value.reasons,
                     ImageAnalysisChecks(outcome.value.checks),
                     outcome.value.confidence)
         IN  IF translated.kind = "raised" THEN fallback_response ELSE translated

\* a handler that hands the claimed name over as the ID number as well
endpoint_id_number_from_name(payload) == payload.user_name

\* the ID number of the handler's call: the request has no such field and the
\* call binds the first three parameters only, so the fourth keeps its default
endpoint_id_number(payload) == None

\* POST /analyze-id-image: the handler calls the engine with the image URL,
\* the ID type and the user name of the payload, and answers
analyze_id_image_endpoint ==
    /\ pc = "idle"
    /\ http.stage = "none"
    /\ \E payload \in Payloads :
          /\ analyze_id_image(payload.id_type, payload.user_name,
                              endpoint_id_number(payload))
          /\ http' = [stage |-> "responded", payload |-> payload,
                      response |-> endpoint_response(result')]
    /\ pc' = "done"
    /\ UNCHANGED <<cv2, pytesseract, Levenshtein, fmt, calls, debug_file, matcher, ocr>>

\* the response leaves; nothing of the request stays behind
SendResponse ==
    /\ pc = "done"
    /\ http.stage = "responded"
    /\ pc' = "idle"
    /\ args' = NoArgs
    /\ locals' = NoLocals
    /\ result' = NoResult
    /\ http' = NoRequest
    /\ UNCHANGED <<cv2, pytesseract, Levenshtein, fmt, calls, debug_file, matcher, ocr>>

NextEndpoint == analyze_id_image_endpoint \/ SendResponse

SpecEndpoint == Init /\ [][NextEndpoint]_vars

\* ------------------------------------------------------------------------
\* Invocations of the engine side by side
\* ------------------------------------------------------------------------

\* the path _match_name opens for its debugging output
debug_path == "C:/temp/name_match_debug.txt"

\* claimed names that make analyze_id_image call the name matcher
ClaimedNames == {user_name \in UserNameInputs : Truthy(user_name)}

\* what the probes measure in these runs: a sharp card and a blurred one
ConcurrentMeasurements ==
    { m \in Measurements :
        /\ m.brightness = 45 /\ m.contrast = 25 /\ m.edge_density = 30
        /\ m.text_density = 20 /\ m.largest_face_ratio = 80
        /\ m.has_document_shape /\ m.sharpness \in {20, 80} }

\* _match_name returns before it opens the debug file: no text, no
\* Levenshtein, or no token in the name
returns_before_debug(ocr_text, user_name) ==
    \/ Len(strip_chars(ocr_text)) < 5
    \/ ~Levenshtein
    \/ split(_normalize_name(the(user_name))) = <<>>

\* the rest of analyze_id_image once the name matcher has returned
finish(call) ==
    LET normalized_id_type == _normalize_id_type(None)
        id_format == _validate_id_number_format(None, normalized_id_type)
    IN  decide(frame(id_type_phrase(normalized_id_type), None, id_format,
                     name_match(call.ocr_text, call.user_name), call.ocr_text, call.m))

\* analyze_id_image is entered and runs up to the first access of the debug
\* file, or to its end when the name matcher never reaches it
Enter(i) ==
    /\ calls[i].pc = "idle"
    /\ \E user_name \in ClaimedNames :
          IF ~cv2
          THEN calls' = [calls EXCEPT ![i] =
                            [pc |-> "done", user_name |-> user_name, wrote |-> {},
                             result |-> Returned(dependency_missing_result)]]
          ELSE \/ \E error \in DownloadErrors :
                     calls' = [calls EXCEPT ![i] =
                                  [pc |-> "done", user_name |-> user_name, wrote |-> {},
                                   result |-> download_failed(error)]]
               \/ \E ocr_text \in OcrOutputs(user_name), m \in ConcurrentMeasurements :
                     calls' = [calls EXCEPT ![i] =
                                  [pc |-> IF returns_before_debug(ocr_text, user_name)
                                          THEN "matched" ELSE "matching",
                                   user_name |-> user_name, ocr_text |-> ocr_text,
                                   m |-> m, wrote |-> {}]]
    /\ UNCHANGED <<cv2, pytesseract, Levenshtein, pc, args, locals, result, fmt, http,
                   debug_file, matcher, ocr>>

\* open(debug_path, "w"): the file is emptied; the open fails, and the
\* failure is swallowed, where the path cannot be written
OpenDebugFile(i) ==
    /\ calls[i].pc = "matching"
    /\ IF debug_file.writable
       THEN /\ debug_file' = [debug_file EXCEPT !.content = <<>>]
            /\ calls' = [calls EXCEPT ![i].pc = "opened",
                                      ![i].wrote = @ \cup {debug_path}]
       ELSE /\ calls' = [calls EXCEPT ![i].pc = "compared"]
            /\ UNCHANGED debug_file
    /\ UNCHANGED <<cv2, pytesseract, Levenshtein, pc, args, locals, result, fmt, http,
                   matcher, ocr>>

\* the three f.write calls reach the file when the with block closes it:
\* they go to the start of the file, over what is there
WriteDebugHeader(i) ==
    /\ calls[i].pc = "opened"
    /\ LET debug_msg == [part |-> "debug_msg", user_name |-> calls[i].user_name,
                         ocr_text |-> calls[i].ocr_text]
       IN  debug_file' = [debug_file EXCEPT !.content =
                             <<debug_msg>> \o SubSeq(@, 2, Len(@))]
    /\ calls' = [calls EXCEPT ![i].pc = "compared"]
    /\ UNCHANGED <<cv2, pytesseract, Levenshtein, pc, args, locals, result, fmt, http,
                   matcher, ocr>>

\* the token loop and the line loop, then open(debug_path, "a") and the
\* write of result_msg at the end of the file
AppendResults(i) ==
    /\ calls[i].pc = "compared"
    /\ IF debug_file.writable
       THEN /\ LET result_msg ==
                       [part |-> "result_msg",
                        match_ratio |-> match_ratio(calls[i].ocr_text,
                                                    the(calls[i].user_name)),
                        max_similarity |-> max_similarity(calls[i].ocr_text,
                                                          the(calls[i].user_name))]
               IN  debug_file' = [debug_file EXCEPT !.content = Append(@, result_msg)]
            /\ calls' = [calls EXCEPT ![i].pc = "scored",
                                      ![i].wrote = @ \cup {debug_path}]
       ELSE /\ calls' = [calls EXCEPT ![i].pc = "scored"]
            /\ UNCHANGED debug_file
    /\ UNCHANGED <<cv2, pytesseract, Levenshtein, pc, args, locals, result, fmt, http,
                   matcher, ocr>>

\* the decision, then open(debug_path, "a") and the write of decision_msg
AppendDecision(i) ==
    /\ calls[i].pc = "scored"
    /\ IF debug_file.writable
       THEN /\ LET matched == _match_name(calls[i].ocr_text, calls[i].user_name)
                   decision_msg == [part |-> "decision_msg", is_match |-> matched[1],
                                    confidence |-> matched[2]]
               IN  debug_file' = [debug_file EXCEPT !.content = Append(@, decision_msg)]
            /\ calls' = [calls EXCEPT ![i].pc = "matched",
                                      ![i].wrote = @ \cup {debug_path}]
       ELSE /\ calls' = [calls EXCEPT ![i].pc = "matched"]
            /\ UNCHANGED debug_file
    /\ UNCHANGED <<cv2, pytesseract, Levenshtein, pc, args, locals, result, fmt, http,
                   matcher, ocr>>

\* the name matcher has returned: the remaining probes, the checklist and
\* the cascade
Finish(i) ==
    /\ calls[i].pc = "matched"
    /\ calls' = [calls EXCEPT ![i] =
                    [pc |-> "done", user_name |-> calls[i].user_name,
                     ocr_text |-> calls[i].ocr_text, m |-> calls[i].m,
                     wrote |-> calls[i].wrote,
                     result |-> Returned(finish(calls[i]))]]
    /\ UNCHANGED <<cv2, pytesseract, Levenshtein, pc, args, locals, result, fmt, http,
                   debug_file, matcher, ocr>>

\* the caller takes the result
Leave(i) ==
    /\ calls[i].pc = "done"
    /\ calls' = [calls EXCEPT ![i] = [pc |-> "idle"]]
    /\ UNCHANGED <<cv2, pytesseract, Levenshtein, pc, args, locals, result, fmt, http,
                   debug_file, matcher, ocr>>

InitConcurrent ==
    /\ \E i \in DOMAIN Installations :
          /\ cv2 = Installations[i][1]
          /\ pytesseract = Installations[i][2]
          /\ Levenshtein = Installations[i][3]
    /\ pc = "idle"
    /\ args = NoArgs
    /\ locals = NoLocals
    /\ result = NoResult
    /\ fmt = NoFormat
    /\ http = NoRequest
    /\ calls = NoCalls
    /\ \E writable \in BOOLEAN : debug_file = [writable |-> writable, content |-> <<>>]
    /\ matcher = NoMatcher
    /\ ocr = NoOcr

NextConcurrent ==
    \E i \in Invocations :
        \/ Enter(i)
        \/ OpenDebugFile(i)
        \/ WriteDebugHeader(i)
        \/ AppendResults(i)
        \/ AppendDecision(i)
        \/ Finish(i)
        \/ Leave(i)

SpecConcurrent == InitConcurrent /\ [][NextConcurrent]_vars

\* ------------------------------------------------------------------------
\* The name matcher on its own
\* ------------------------------------------------------------------------

\* " ".join(tokens)
RECURSIVE join(_)
join(tokens) ==
    IF tokens = <<>> THEN <<>>
    ELSE IF Len(tokens) = 1 THEN tokens[1]
    ELSE tokens[1] \o <<" ">> \o join(Tail(tokens))

\* every order of the elements of a sequence
RECURSIVE Orders(_)
Orders(tokens) ==
    IF tokens = <<>> THEN {<<>>}
    ELSE UNION { {<<tokens[i]>> \o rest :
                     rest \in Orders([k \in 1..(Len(tokens) - 1) |->
                                        IF k < i THEN tokens[k] ELSE tokens[k + 1]])} :
                 i \in DOMAIN tokens }

\* the claimed name with its whitespace-delimited tokens in every order
PermutedNames(name) == {join(tokens) : tokens \in Orders(split(name))}

\* claimed names: all tokens on the card, an initial, a misread token, tokens
\* of two letters, a token the card does not show, no letter at all
BaseNames ==
    { <<"J", "u", "a", "n", " ", "D", "e", "l", "a", " ", "C", "r", "u", "z">>,
      <<"A", "n", "a", " ", "D", " ", "K", "r", "u", "s">>,
      <<"A", "l", " ", "B", "o">>,
      <<"A", "l", " ", "X", "y">>,
      <<"J", "u", "a", "n", "n", " ", "C", "r", "u">>,
      <<"1", "2", "3">> }

MatcherNames ==
    {None, Some(<<>>)} \cup {Some(name) : name \in UNION {PermutedNames(b) : b \in BaseNames}}

\* OCR texts: the same tokens in three orders, on one line and on two, a
\* card with other words, a card with a token missing, an unusable text
MatcherTexts ==
    { <<"C", "R", "U", "Z", ",", " ", "D", "E", "L", "A", " ", "J", "U", "A", "N">>,
      <<"J", "U", "A", "N", "\n", "D", "E", "L", "A", " ", "C", "R", "U", "Z">>,
      <<"D", "e", "l", "a", " ", "J", "u", "a", "n", " ", "C", "r", "u", "z", "1">>,
      <<"R", "E", "P", "U", "B", "L", "I", "K", "A", " ", "A", "L", " ", "N", "G", "\n", "B", "O", " ", "A", "L">>,
      <<"J", "u", "a", "n", " ", "C", "r", "u", "z">>,
      <<" ", "A", "L", " ", "\n">> }

InitNameMatcher ==
    /\ cv2 = TRUE
    /\ pytesseract = TRUE
    /\ Levenshtein \in BOOLEAN
    /\ pc = "idle"
    /\ args = NoArgs
    /\ locals = NoLocals
    /\ result = NoResult
    /\ fmt = NoFormat
    /\ http = NoRequest
    /\ calls = NoCalls
    /\ debug_file = NoFile
    /\ ocr = NoOcr
    /\ \E ocr_text \in MatcherTexts, user_name \in MatcherNames :
          matcher = [stage |-> "claimed", ocr_text |-> ocr_text, user_name |-> user_name]

\* _match_name(ocr_text, user_name): the returned triple, and match_ratio
\* and max_similarity where the call gets as far as computing them
MatchName ==
    /\ matcher.stage = "claimed"
    /\ LET returned == _match_name(matcher.ocr_text, matcher.user_name)
           scored == /\ Truthy(matcher.user_name)
                     /\ ~returns_before_debug(matcher.ocr_text, matcher.user_name)
           compared == [stage |-> "matched", ocr_text |-> matcher.ocr_text,
                        user_name |-> matcher.user_name, scored |-> scored,
                        is_match |-> returned[1], confidence |-> returned[2],
                        detail |-> returned[3]]
       IN  matcher' =
               IF scored
               THEN compared @@
                    [match_ratio |-> match_ratio(matcher.ocr_text, the(matcher.user_name)),
                     max_similarity |-> max_similarity(matcher.ocr_text,
                                                       the(matcher.user_name))]
               ELSE compared
    /\ UNCHANGED <<cv2, pytesseract, Levenshtein, pc, args, locals, result, fmt, http,
                   calls, debug_file, ocr>>

NextNameMatcher == MatchName

SpecNameMatcher == InitNameMatcher /\ [][NextNameMatcher]_vars

\* ------------------------------------------------------------------------
\* Name normalization on its own
\* ------------------------------------------------------------------------

\* an upper-case and a lower-case letter, two kinds of whitespace, a digit
\* and a punctuation mark
NameAlphabet == {"A", "b", " ", "\n", "1", ","}

InitNormalize ==
    /\ cv2 = TRUE
    /\ pytesseract = TRUE
    /\ Levenshtein = TRUE
    /\ pc = "idle"
    /\ args = NoArgs
    /\ locals = NoLocals
    /\ result = NoResult
    /\ fmt = NoFormat
    /\ http = NoRequest
    /\ calls = NoCalls
    /\ debug_file = NoFile
    /\ ocr = NoOcr
    /\ \E name \in StringsUpTo(NameAlphabet, MaxNameLen) :
          matcher = [stage |-> "raw", name |-> name, applied |-> 0]

\* name = _normalize_name(name), at most twice in a row
NormalizeName ==
    /\ matcher.stage \in {"raw", "normalized"}
    /\ matcher.applied < 2
    /\ matcher' = [stage |-> "normalized", name |-> _normalize_name(matcher.name),
                   before |-> matcher.name, applied |-> matcher.applied + 1]
    /\ UNCHANGED <<cv2, pytesseract, Levenshtein, pc, args, locals, result, fmt, http,
                   calls, debug_file, ocr>>

NextNormalize == NormalizeName

SpecNormalize == InitNormalize /\ [][NextNormalize]_vars

\* ------------------------------------------------------------------------
\* The text-extraction engine
\* ------------------------------------------------------------------------

\* what pytesseract.image_to_string returns for one pass
GoodText ==
    << "R", "E", "P", "U", "B", "L", "I", "K", "A", " ", "N", "G", " ",
       "P", "I", "L", "I", "P", "I", "N", "A", "S", "\n", "J", "U", "A",
       "N", " ", "D", "E", "L", "A", " ", "C", "R", "U", "Z", " ", "S",
       "A", "N", "T", "O", "S", "\n" >>
FairText == <<"J", "U", "A", "N", " ", "C", "R", "U", "Z", " ", "1", "2", "\n">>
ShortText == <<"A", "B", "1", "2", "\n">>
DigitsText == <<"1", "2", "3", "4", " ", "5", "6", "7", "8", " ", "9", "0", "\n">>

\* what the three passes of one attempt do on one orientation of the image:
\* the text each pass reads, and the pass during which an exception is
\* raised (0: none)
Reading(text1, text2, text3, raises) ==
    [text1 |-> text1, text2 |-> text2, text3 |-> text3, raises |-> raises]

Readings ==
    { Reading(<<>>, <<>>, <<>>, 0),
      Reading(ShortText, <<>>, <<>>, 0),
      Reading(DigitsText, <<>>, <<>>, 0),
      Reading(FairText, <<>>, ShortText, 0),
      Reading(<<>>, ShortText, FairText, 0),
      Reading(GoodText, <<>>, <<>>, 0),
      Reading(GoodText, <<>>, <<>>, 2) }

\* (height, width) of decoded images: landscape, portrait, larger than the
\* upscaling target
Shapes == { <<600, 1000>>, <<1000, 700>>, <<2500, 3000>> }

\* the orientations tried after the unrotated image, in the order of the loop
Angles == <<90, 270, 180>>

\* images: a shape, a reading for each orientation, and the rotation (if
\* any) that cv2.rotate fails to produce
Images ==
    [ shape : Shapes, reading : [{0, 90, 270, 180} -> Readings],
      rotate_raises : {0, 90, 270, 180} ]

\* shape of the array cv2.rotate returns
rotated_shape(shape, angle) ==
    IF angle \in {90, 270} THEN <<shape[2], shape[1]>> ELSE shape

\* scale = max(1, 2000 // gray.shape[1])
scale(shape) == IF 2000 \div shape[2] > 1 THEN 2000 \div shape[2] ELSE 1

\* "\n".join(filter(None, texts))
RECURSIVE join_lines(_)
join_lines(texts) ==
    IF texts = <<>> THEN <<>>
    ELSE IF Head(texts) = <<>> THEN join_lines(Tail(texts))
    ELSE LET rest == join_lines(Tail(texts))
         IN  IF rest = <<>> THEN Head(texts) ELSE Head(texts) \o <<"\n">> \o rest

\* _ocr_attempt(img): the combined text of the three passes, or "" when an
\* exception is raised on the way
_ocr_attempt(reading) ==
    IF ~cv2 \/ ~pytesseract THEN <<>>
    ELSE IF reading.raises # 0 THEN <<>>
    ELSE strip_chars(join_lines(<<reading.text1, reading.text2, reading.text3>>))

\* sum(c.isalpha() for c in text)
alpha_count(text) == Cardinality({i \in DOMAIN text : text[i] \in UpperChars \cup LowerChars})

\* a score that does not look at the length of the text
_text_quality_score_any_length(text) ==
    IF text = <<>> THEN Rat(0, 1)
    ELSE LET words == SelectSeq(split(text), LAMBDA w : Len(w) >= 3)
         IN  RMul(Rat(alpha_count(text), Len(text)), Rat(Len(words), 1))

\* _text_quality_score(text)
_text_quality_score(text) ==
    IF text = <<>> \/ Len(text) < 10 THEN Rat(0, 1)
    ELSE LET words == SelectSeq(split(text), LAMBDA w : Len(w) >= 3)
         IN  RMul(Rat(alpha_count(text), Len(text)), Rat(Len(words), 1))

\* one entry of the trace of attempts: the orientation, the upscale factor
\* of its first pass, the candidate text and its score
Attempt(angle, shape, reading) ==
    LET text == _ocr_attempt(reading)
    IN  [angle |-> angle, shape |-> shape, scale |-> scale(shape),
         raised |-> reading.raises # 0, text |-> text,
         score |-> _text_quality_score(text)]

InitOcr ==
    /\ \E i \in DOMAIN Installations :
          /\ cv2 = Installations[i][1]
          /\ pytesseract = Installations[i][2]
          /\ Levenshtein = Installations[i][3]
          /\ Installations[i][3]
    /\ pc = "idle"
    /\ args = NoArgs
    /\ locals = NoLocals
    /\ result = NoResult
    /\ fmt = NoFormat
    /\ http = NoRequest
    /\ calls = NoCalls
    /\ debug_file = NoFile
    /\ matcher = NoMatcher
    /\ \E image \in Images :
          /\ (~cv2 \/ ~pytesseract) =>
                 (image.rotate_raises = 0
                    /\ \A angle \in {90, 270, 180} : image.reading[angle] = image.reading[0])
          /\ ocr = [stage |-> "image", image |-> image]

\* _extract_text_from_image up to the end of the attempt on the unrotated
\* image: "" without the libraries, the unrotated text when it scores 5.0
\* or more, else the rotations are to follow
ExtractOriginal ==
    /\ ocr.stage = "image"
    /\ IF ~pytesseract \/ ~cv2
       THEN ocr' = [stage |-> "returned", image |-> ocr.image, attempts |-> <<>>,
                    text |-> <<>>]
       ELSE LET original == Attempt(0, ocr.image.shape, ocr.image.reading[0])
            IN  IF RLt(original.score, Rat(5, 1))
                THEN ocr' = [stage |-> "rotating", image |-> ocr.image,
                             attempts |-> <<original>>, next |-> 1,
                             best_text |-> original.text,
                             best_score |-> original.score]
                ELSE ocr' = [stage |-> "returned", image |-> ocr.image,
                             attempts |-> <<original>>, text |-> original.text]
    /\ UNCHANGED <<cv2, pytesseract, Levenshtein, pc, args, locals, result, fmt, http,
                   calls, debug_file, matcher>>

\* one turn of the loop over the rotations: cv2.rotate, the attempt, the
\* comparison with the best so far; after the last turn best_text is
\* returned; an exception of cv2.rotate reaches the outer handler, which
\* returns ""
ExtractRotated ==
    /\ ocr.stage = "rotating"
    /\ LET angle == Angles[ocr.next]
       IN  IF ocr.image.rotate_raises = angle
           THEN ocr' = [stage |-> "returned", image |-> ocr.image,
                        attempts |-> ocr.attempts, text |-> <<>>]
           ELSE LET rotated == Attempt(angle, rotated_shape(ocr.image.shape, angle),
                                       ocr.image.reading[angle])
                    better == RLt(ocr.best_score, rotated.score)
                    best_text == IF better THEN rotated.text ELSE ocr.best_text
                    best_score == IF better THEN rotated.score ELSE ocr.best_score
                IN  IF ocr.next < Len(Angles)
                    THEN ocr' = [ocr EXCEPT !.attempts = Append(@, rotated),
                                            !.next = @ + 1,
                                            !.best_text = best_text,
                                            !.best_score = best_score]
                    ELSE ocr' = [stage |-> "returned", image |-> ocr.image,
                                 attempts |-> Append(ocr.attempts, rotated),
                                 text |-> best_text]
    /\ UNCHANGED <<cv2, pytesseract, Levenshtein, pc, args, locals, result, fmt, http,
                   calls, debug_file, matcher>>

NextOcr == ExtractOriginal \/ ExtractRotated

SpecOcr == InitOcr /\ [][NextOcr]_vars

\* ------------------------------------------------------------------------
\* Properties of the decision cascade
\* ------------------------------------------------------------------------

\* a call that returned after its probes ran
Analysed == pc = "done" /\ result.kind = "returned" /\ locals.probed

Zero == Rat(0, 1)
One == Rat(1, 1)

\* the condition of rule k of the priority list, over the measured signals
RuleHolds(k, f) ==
    LET m == f.m
        portrait == 30 <= m.largest_face_ratio /\ m.largest_face_ratio <= 450
        selfie == m.largest_face_ratio >= 80 /\ ~m.has_document_shape
                  /\ m.text_density < 15
        score == document_score(m)
    IN  CASE k = 1 -> selfie
          [] k = 2 -> Truthy(f.id_number) /\ ~f.id_format[1]
          [] k = 3 -> /\ f.name_match_result # None
                      /\ ~the(f.name_match_result)[1]
                      /\ RLt(Rat(2, 10), the(f.name_match_result)[2])
          [] k = 4 -> m.sharpness < 35
          [] k = 5 -> /\ ~m.has_document_shape /\ ~portrait /\ m.text_density >= 25
                      /\ m.edge_density < 35 /\ m.sharpness >= 45
          [] k = 6 -> m.text_density < 8 /\ ~m.has_document_shape
          [] k = 7 -> m.has_document_shape /\ score >= 45
          [] k = 8 -> portrait /\ m.text_density >= 20 /\ score >= 55
          [] k = 9 -> m.text_density >= 12 /\ m.edge_density >= 35 /\ ~selfie
                      /\ score >= 40
          [] OTHER -> TRUE

\* the lowest-numbered rule whose condition holds
FirstRule(f) == CHOOSE k \in 1..10 : RuleHolds(k, f) /\ \A j \in 1..(k - 1) : ~RuleHolds(j, f)

\* the status, category, remediation hint and confidence rule k prescribes
RuleOutcome(k, f) ==
    LET m == f.m
        score == Hundredths(document_score(m))
        bounded(hi, lo, x) == RMin(Hundredths(hi), RMax(Hundredths(lo), x))
    IN  CASE k = 1 ->
               <<"Invalid", "selfie",
                 "Detected a dominant face region without a clear card boundary.",
                 RMin(Hundredths(99),
                      RAdd(Hundredths(65), Thousandths(m.largest_face_ratio)))>>
          [] k = 2 ->
               <<"Invalid", "unknown", "Please verify the {} number is entered correctly.",
                 Hundredths(95)>>
          [] k = 3 ->
               <<"Invalid", "unknown", "The submitted ID may belong to a different person.",
                 bounded(96, 75, RAdd(Hundredths(85),
                                      RMul(the(f.name_match_result)[2], Rat(1, 10))))>>
          [] k = 4 ->
               <<"Invalid", "unknown",
                 "Retake the photo with better focus and avoid motion blur.",
                 bounded(95, 45, RSub(One, Rat(m.sharpness, 110)))>>
          [] k = 5 ->
               <<"Invalid", "unknown",
                 "Please upload a clear photo of the physical ID card, not a screen capture or chat image.",
                 bounded(96, 60, RAdd(Hundredths(78), Thousandths(m.text_density)))>>
          [] k = 6 ->
               <<"Invalid", "unknown",
                 "Capture a full card image with clearer text and visible card features.",
                 bounded(92, 48, RSub(Hundredths(75), score))>>
          [] k = 7 ->
               <<"Valid", "identification_card",
                 "Card boundary and printed details were detected successfully.",
                 bounded(98, 55, score)>>
          [] k = 8 ->
               <<"Valid", "identification_card",
                 "Card boundary is partially visible; text and security details are sufficient.",
                 bounded(95, 55, score)>>
          [] k = 9 ->
               <<"Valid", "identification_card",
                 "Printed details and card features detected (landscape orientation).",
                 bounded(92, 55, score)>>
          [] OTHER ->
               <<"Invalid", "unknown",
                 "Please submit a clearer full-card photo with readable details.",
                 bounded(92, 45, RSub(Hundredths(70), score))>>

OutcomeOf(r) == <<r.status, r.category, r.reasons[2].text, r.confidence>>

\* C1: the result of every analysed call is the outcome of the lowest-numbered
\* of the ten rules whose condition holds on the measured signals, and a
\* sharpness below 35 gives status Invalid whatever the document shape and
\* the document score are.
C1_FirstMatchWins ==
    Analysed =>
        /\ OutcomeOf(result.value) = RuleOutcome(FirstRule(locals.f), locals.f)
        /\ locals.f.m.sharpness < 35 => result.value.status = "Invalid"

\* a severely blurred image that has a document shape and a score that the
\* first Valid rule would accept, decided by the blur rule
C1_Witness ==
    /\ Analysed
    /\ locals.f.m.sharpness = 20
    /\ locals.f.m.has_document_shape
    /\ document_score(locals.f.m) >= 45
    /\ FirstRule(locals.f) = 4
    /\ RuleHolds(7, locals.f)
    /\ result.value.status = "Invalid"

\* ------------------------------------------------------------------------
\* Properties of the checklist
\* ------------------------------------------------------------------------

CheckNames(r) == [i \in 1..Len(r.checks) |-> r.checks[i].name]

SevenChecks ==
    << "Card Boundary", "Printed Details", "Sharpness", "Lighting", "Selfie Signal",
       "Card Portrait", "Screenshot Signal" >>

\* the checklist the claimed number and name call for
ExpectedCheckNames ==
    SevenChecks
    \o (IF Truthy(args.id_number) THEN <<"ID Number Format">> ELSE <<>>)
    \o (IF Truthy(args.user_name) THEN <<"Name Match">> ELSE <<>>)

C3_ConfidenceInUnitInterval ==
    (pc = "done" /\ result.kind = "returned") =>
        /\ RLe(Zero, result.value.confidence)
        /\ RLe(result.value.confidence, One)

\* a screenshot of text density 1.0: 0.78 + 1.0 exceeds 1 and is cut to 0.96
C3_Witness ==
    /\ Analysed
    /\ FirstRule(locals.f) = 5
    /\ locals.f.m.text_density = 1000
    /\ result.value.confidence = Hundredths(96)

\* ------------------------------------------------------------------------
\* Properties of single rules
\* ------------------------------------------------------------------------

\* C4: a face ratio of at least 0.08 with no document shape and a text density
\* below 0.015 gives Invalid/selfie with confidence min(0.99, 0.65 + face
\* ratio), whatever the claimed number and name are (0.95 for face ratio 0.30);
\* no other outcome has category selfie.
C4_SelfieFirst ==
    Analysed =>
        LET m == locals.f.m
            selfie == m.largest_face_ratio >= 80 /\ ~m.has_document_shape
                      /\ m.text_density < 15
            r == result.value
        IN  /\ selfie =>
                 /\ r.status = "Invalid"
                 /\ r.category = "selfie"
                 /\ r.confidence = RMin(Hundredths(99),
                                        RAdd(Hundredths(65),
                                             Thousandths(m.largest_face_ratio)))
            /\ (selfie /\ m.largest_face_ratio = 300) => r.confidence = Hundredths(95)
            /\ r.category = "selfie" => selfie

\* a selfie with a format-invalid number and a mismatching name
C4_Witness ==
    /\ Analysed
    /\ locals.f.m.largest_face_ratio = 300
    /\ ~locals.f.m.has_document_shape
    /\ locals.f.m.text_density = 5
    /\ RuleHolds(2, locals.f)
    /\ RuleHolds(3, locals.f)
    /\ result.value.category = "selfie"

\* C5: a document shape, text density 0.02, sharpness 80, no face, no claimed
\* number and no claimed name give Valid/identification_card with the Card
\* Boundary and Sharpness checks passing, for every brightness, contrast and
\* edge density.
C5_ClearCardIsValid ==
    ( /\ Analysed
      /\ locals.f.m.has_document_shape
      /\ locals.f.m.text_density = 20
      /\ locals.f.m.sharpness = 80
      /\ locals.f.m.largest_face_ratio = 0
      /\ ~Truthy(args.id_number)
      /\ ~Truthy(args.user_name) ) =>
        /\ result.value.status = "Valid"
        /\ result.value.category = "identification_card"
        /\ \E i \in DOMAIN result.value.checks :
              /\ result.value.checks[i].name = "Card Boundary"
              /\ result.value.checks[i].status = "pass"
        /\ \E i \in DOMAIN result.value.checks :
              /\ result.value.checks[i].name = "Sharpness"
              /\ result.value.checks[i].status = "pass"

\* the clear card under poor lighting, low contrast and no edges
C5_Witness ==
    /\ Analysed
    /\ locals.f.m.has_document_shape
    /\ locals.f.m.text_density = 20
    /\ locals.f.m.sharpness = 80
    /\ locals.f.m.largest_face_ratio = 0
    /\ locals.f.m.brightness = 231
    /\ locals.f.m.contrast = 24
    /\ locals.f.m.edge_density = 0
    /\ args.id_number = None
    /\ args.user_name = None
    /\ result.value.status = "Valid"

\* the number of digit characters of a string
DigitCount(s) == Cardinality({i \in DOMAIN s : s[i] \in DigitChars})

\* a claimed number is present and its digit count is not the one configured
\* for the normalized claimed type
FormatInvalid(id_type, id_number) ==
    /\ Truthy(id_number)
    /\ _normalize_id_type(id_type) \in DOMAIN ID_DIGIT_REQUIREMENTS
    /\ DigitCount(the(id_number)) # ID_DIGIT_REQUIREMENTS[_normalize_id_type(id_type)]

\* C6: a claimed number whose format is invalid for the normalized type, on
\* an image without the selfie signal, gives Invalid/unknown with confidence
\* 0.95, the format checker's detail as message and first reason, and a
\* failing "ID Number Format" check, whatever the name match, the blur, the
\* document shape and the document score are.
C6_FormatFailureRejects ==
    ( /\ Analysed
      /\ FormatInvalid(args.id_type, args.id_number)
      /\ ~( /\ locals.f.m.largest_face_ratio >= 80
            /\ ~locals.f.m.has_document_shape
            /\ locals.f.m.text_density < 15 ) ) =>
        LET r == result.value
            detail == _validate_id_number_format(
                          args.id_number, _normalize_id_type(args.id_type))[2]
        IN  /\ r.status = "Invalid"
            /\ r.category = "unknown"
            /\ r.confidence = Hundredths(95)
            /\ detail.text
                 = "{} number must have exactly {} digits (found {} digits in '{}')."
            /\ r.message = detail
            /\ r.reasons[1] = detail
            /\ \E i \in DOMAIN r.checks :
                  /\ r.checks[i].name = "ID Number Format"
                  /\ r.checks[i].status = "fail"

\* a format-invalid number on a blurred, document-shaped image whose name
\* does not match
C6_Witness ==
    /\ Analysed
    /\ FormatInvalid(args.id_type, args.id_number)
    /\ RuleHolds(3, locals.f)
    /\ RuleHolds(4, locals.f)
    /\ locals.f.m.has_document_shape
    /\ result.value.confidence = Hundredths(95)

\* the result of the same call with no claimed name
WithoutClaimedName(f) ==
    decide(frame(f.id_type_phrase, f.id_number, f.id_format, None, <<>>, f.m))

\* C7: with a claimed name and an OCR text that is empty or shorter than 5
\* characters after trimming, the name matcher returns is_match = true with
\* confidence 0.2, the name-mismatch rule does not fire, and status, category
\* and confidence are those of the same signals with no claimed name.
C7_OcrFailureNeverRejects ==
    ( /\ Analysed
      /\ Truthy(args.user_name)
      /\ Len(strip_chars(locals.f.ocr_text)) < 5 ) =>
        LET nm == the(locals.f.name_match_result)
            r == result.value
            alone == WithoutClaimedName(locals.f)
        IN  /\ nm[1] = TRUE
            /\ nm[2] = Rat(2, 10)
            /\ FirstRule(locals.f) # 3
            /\ r.reasons[2].text # "The submitted ID may belong to a different person."
            /\ r.status = alone.status
            /\ r.category = alone.category
            /\ r.confidence = alone.confidence

\* a claimed name, a two-letter OCR text between blanks, and a Valid result
C7_Witness ==
    /\ Analysed
    /\ Truthy(args.user_name)
    /\ locals.f.ocr_text = <<" ", "A", "L", " ", "\n">>
    /\ result.value.status = "Valid"
    /\ Len(result.value.checks) = 8

\* ------------------------------------------------------------------------
\* Properties of the format checker
\* ------------------------------------------------------------------------

C9_PassportExempt ==
    ( /\ fmt.stage = "checked"
      /\ \/ fmt.normalized_id_type = "Passport"
         \/ fmt.normalized_id_type \notin DOMAIN ID_DIGIT_REQUIREMENTS
         \/ ~Truthy(fmt.id_number) ) =>
        fmt.is_valid

\* ------------------------------------------------------------------------
\* Properties of the missing-dependency path
\* ------------------------------------------------------------------------

FetchFailed ==
    pc = "done" /\ ~locals.probed /\ "download" \in DOMAIN locals

\* C11: a fetch failure or an undecodable payload leaves the engine as an
\* error, never as an ImageAnalysisResult, and the endpoint does not let the
\* error through: it answers Invalid / unknown with confidence 0.0, the fixed
\* remediation message as message and only reason, and the single check
\* "Image Fetch" with status fail.
C11_FetchFailureBecomesFallback ==
    (FetchFailed /\ http.stage = "responded") =>
        /\ result.kind = "raised"
        /\ http.response.kind = "returned"
        /\ LET r == http.response.value
           IN  /\ r.status = "Invalid"
               /\ r.category = "unknown"
               /\ r.confidence = Rat(0, 1)
               /\ r.message = Msg("Unable to analyze the attached image. Please verify the image URL and try again.")
               /\ r.reasons = <<r.message>>
               /\ Len(r.checks) = 1
               /\ r.checks[1].name = "Image Fetch"
               /\ r.checks[1].status = "fail"

\* an undecodable payload, answered by the fallback response
C11_Witness ==
    /\ FetchFailed
    /\ locals.download = "ValueError"
    /\ http.stage = "responded"
    /\ http.payload.user_name # None
    /\ http.response.kind = "returned"
    /\ http.response.value.checks[1].name = "Image Fetch"

\* ------------------------------------------------------------------------
\* Properties of invocations side by side
\* ------------------------------------------------------------------------

\* an invocation that has been entered and has not returned yet
InFlight(i) == calls[i].pc \notin {"idle", "done"}

\* C12: no shared mutable state across invocations: of two invocations with
\* claimed names that overlap in time, neither writes a location the other
\* writes, and each returns the result it returns when it runs alone.
C12_NoSharedMutableState ==
    \A i, j \in Invocations :
        i # j =>
            /\ (InFlight(i) /\ InFlight(j)) => calls[i].wrote \cap calls[j].wrote = {}
            /\ (calls[i].pc = "done" /\ calls[i].result.kind = "returned"
                   /\ "m" \in DOMAIN calls[i])
                  => calls[i].result.value =
                        decide(frame(id_type_phrase(_normalize_id_type(None)), None,
                                     _validate_id_number_format(
                                         None, _normalize_id_type(None)),
                                     name_match(calls[i].ocr_text, calls[i].user_name),
                                     calls[i].ocr_text, calls[i].m))

\* ------------------------------------------------------------------------
\* Properties of the name matcher
\* ------------------------------------------------------------------------

\* the set of normalized tokens of an OCR text
OcrTokenSet(ocr_text) == Range(split(_normalize_name(ocr_text)))

\* C13: match_ratio does not depend on the order of the tokens: permuting
\* the whitespace-delimited tokens of the claimed name leaves it unchanged,
\* and so does replacing the OCR text by one with the same set of normalized
\* tokens; "Juan Dela Cruz" against "CRUZ, DELA JUAN" has match_ratio 1.0 and
\* is a match.
C13_TokenOrderIndependent ==
    (matcher.stage = "matched" /\ matcher.scored) =>
        /\ \A name \in PermutedNames(the(matcher.user_name)) :
              match_ratio(matcher.ocr_text, name) = matcher.match_ratio
        /\ \A ocr_text \in MatcherTexts :
              OcrTokenSet(ocr_text) = OcrTokenSet(matcher.ocr_text)
                  => match_ratio(ocr_text, the(matcher.user_name)) = matcher.match_ratio
        /\ ( /\ matcher.user_name = Some(<<"J", "u", "a", "n", " ", "D", "e", "l", "a", " ", "C", "r", "u", "z">>)
             /\ matcher.ocr_text = <<"C", "R", "U", "Z", ",", " ", "D", "E", "L", "A", " ", "J", "U", "A", "N">> )
              => (matcher.match_ratio = Rat(1, 1) /\ matcher.is_match)

\* a name of three tokens in another order than the card shows them, two of
\* the three matched
C13_Witness ==
    /\ matcher.stage = "matched"
    /\ matcher.scored
    /\ matcher.user_name = Some(<<"K", "r", "u", "s", " ", "D", " ", "A", "n", "a">>)
    /\ matcher.ocr_text = <<"J", "U", "A", "N", "\n", "D", "E", "L", "A", " ", "C", "R", "U", "Z">>
    /\ matcher.match_ratio = Rat(1, 3)

\* what the decision rule gives for an OCR text and a name
DecisionRule(ocr_text, name) ==
    LET ratio == match_ratio(ocr_text, name)
        similarity == max_similarity(ocr_text, name)
    IN  [is_match |-> RLe(Rat(60, 100), ratio) \/ RLe(Rat(65, 100), similarity),
         confidence |-> RMax(ratio, similarity)]

\* a non-empty claimed name against an OCR text of at least 5 characters
\* after trimming
MatcherCompared ==
    /\ matcher.stage = "matched"
    /\ Truthy(matcher.user_name)
    /\ Len(strip_chars(matcher.ocr_text)) >= 5

\* C14 as stated: for every non-empty claimed name and every OCR text of at
\* least 5 characters after trimming, is_match = (match_ratio >= 0.60 or
\* max_similarity >= 0.65) and confidence = max(match_ratio, max_similarity).
C14_DecisionForEveryName ==
    MatcherCompared =>
        /\ matcher.is_match = DecisionRule(matcher.ocr_text, the(matcher.user_name)).is_match
        /\ matcher.confidence =
               DecisionRule(matcher.ocr_text, the(matcher.user_name)).confidence

\* C14, amended: the decision rule holds when the Levenshtein library is
\* available and the name has at least one token after normalization, with
\* match_ratio = matched tokens / claimed tokens and the same confidence
\* formula matched or not; otherwise the matcher returns is_match = true with
\* confidence 0.5.
C14_DecisionWhenCompared ==
    MatcherCompared =>
        LET user_tokens == split(_normalize_name(the(matcher.user_name)))
            ocr_tokens == OcrTokenSet(matcher.ocr_text)
            matched == {k \in DOMAIN user_tokens : token_matched(user_tokens[k], ocr_tokens)}
        IN  IF Levenshtein /\ user_tokens # <<>>
            THEN /\ matcher.scored
                 /\ matcher.match_ratio = Rat(Cardinality(matched), Len(user_tokens))
                 /\ matcher.is_match = ( \/ RLe(Rat(60, 100), matcher.match_ratio)
                                         \/ RLe(Rat(65, 100), matcher.max_similarity) )
                 /\ matcher.confidence = RMax(matcher.match_ratio, matcher.max_similarity)
            ELSE /\ matcher.is_match
                 /\ matcher.confidence = Rat(5, 10)

\* a mismatch whose confidence is the token ratio, above the similarity
C14_Witness ==
    /\ MatcherCompared
    /\ matcher.scored
    /\ ~matcher.is_match
    /\ matcher.confidence = matcher.match_ratio
    /\ RLt(matcher.max_similarity, matcher.match_ratio)

\* ------------------------------------------------------------------------
\* Properties of the document score
\* ------------------------------------------------------------------------

\* the bonuses and penalties of a measurement, in hundredths
ScoreTerms(m) ==
    << IF m.has_document_shape THEN 25 ELSE 0,
       IF m.text_density >= 12 THEN 30 ELSE IF m.text_density >= 8 THEN 15 ELSE 0,
       IF m.sharpness >= 60 THEN 20 ELSE IF m.sharpness >= 40 THEN 10 ELSE 0,
       IF m.contrast >= 25 THEN 10 ELSE 0,
       IF m.edge_density >= 30 THEN 10 ELSE 0,
       IF m.largest_face_ratio >= 30 /\ m.largest_face_ratio <= 450 THEN 15 ELSE 0,
       IF selfie_signal(m) THEN -10 ELSE 0,
       IF screenshot_like_signal(m) THEN -25 ELSE 0,
       IF m.sharpness < 35 THEN -20 ELSE IF m.sharpness < 55 THEN -8 ELSE 0,
       IF poor_lighting(m) THEN -8 ELSE 0 >>

RECURSIVE Sum(_)
Sum(terms) == IF terms = <<>> THEN 0 ELSE Head(terms) + Sum(Tail(terms))

\* C15: document_score is in [0,1] for every combination of the signals:
\* it is the sum of the bonuses and penalties, brought back to 0 when the
\* sum is negative and to 1 when it exceeds 1, and this clamped value is what
\* the decision rules read.
C15_DocumentScoreInUnitInterval ==
    Analysed =>
        LET m == locals.f.m
            total == Sum(ScoreTerms(m))
            score == document_score(m)
        IN  /\ score >= 0 /\ score <= 100
            /\ score = (IF total < 0 THEN 0 ELSE IF total > 100 THEN 100 ELSE total)
            /\ valid_boundary_cond(locals.f) = (m.has_document_shape /\ score >= 45)

\* a card whose bonuses add up to more than 1, accepted as valid
C15_Witness ==
    /\ Analysed
    /\ Sum(ScoreTerms(locals.f.m)) > 100
    /\ document_score(locals.f.m) = 100
    /\ result.value.status = "Valid"

\* C16: name normalization is idempotent: normalizing a normalized name
\* gives the same string back.
C16_NormalizeIdempotent ==
    (matcher.stage = "normalized" /\ matcher.applied = 2) =>
        matcher.name = matcher.before

\* a name of two tokens normalized twice, the second time without change
C16_Witness ==
    /\ matcher.stage = "normalized"
    /\ matcher.applied = 2
    /\ matcher.name = <<"a", " ", "b">>
    /\ matcher.before = <<"a", " ", "b">>

\* ------------------------------------------------------------------------
\* Properties of the text-extraction engine
\* ------------------------------------------------------------------------

\* a run of the engine with both libraries that has returned
Extracted == ocr.stage = "returned" /\ cv2 /\ pytesseract

\* C17: the quality score of a candidate text is 0 when the text is empty,
\* shorter than 10 characters or without an alphabetic character; otherwise
\* it is the fraction of alphabetic characters times the number of
\* whitespace-delimited tokens of length 3 or more; it is never negative.
C17_QualityScore ==
    (ocr.stage \in {"rotating", "returned"}) =>
        \A k \in DOMAIN ocr.attempts :
            LET text == ocr.attempts[k].text
                score == ocr.attempts[k].score
                letters == {i \in DOMAIN text : text[i] \in UpperChars \cup LowerChars}
                tokens == split(text)
                long == {i \in DOMAIN tokens : Len(tokens[i]) >= 3}
            IN  /\ RLe(Rat(0, 1), score)
                /\ IF text = <<>> \/ Len(text) < 10 \/ letters = {}
                   THEN score = Rat(0, 1)
                   ELSE score = Rat(Cardinality(letters) * Cardinality(long), Len(text))

\* one search that scored an empty text, a short text with letters, a long
\* text without a letter and a text with letters and digits
C17_Witness ==
    /\ Extracted
    /\ Len(ocr.attempts) = 4
    /\ ocr.attempts[1].text = <<>>
    /\ ocr.attempts[2].text = <<"A", "B", "1", "2">>
    /\ ocr.attempts[3].text = strip_chars(DigitsText)
    /\ ocr.attempts[4].score = Rat(5, 3)

\* the first of the highest-scoring entries of a sequence of candidates
FirstBest(candidates) ==
    CHOOSE k \in DOMAIN candidates :
        \A j \in DOMAIN candidates :
            /\ RLe(candidates[j].score, candidates[k].score)
            /\ j < k => RLt(candidates[j].score, candidates[k].score)

\* C18: the search evaluates the unrotated image first; a score of 5.0 or
\* more returns that text with no rotation attempted; otherwise the 90, 270
\* and 180 degree rotations are evaluated in that order and the text of the
\* highest-scoring of the four candidates is returned, a tie keeping the
\* earliest; the search ends after at most four attempts.
C18_OrientationSearch ==
    Extracted =>
        LET attempts == ocr.attempts
            angles == [k \in DOMAIN attempts |-> attempts[k].angle]
        IN  /\ Len(attempts) >= 1
            /\ Len(attempts) <= 4
            /\ angles[1] = 0
            /\ IF RLe(Rat(5, 1), attempts[1].score)
               THEN angles = <<0>> /\ ocr.text = attempts[1].text
               ELSE angles = <<0, 90, 270, 180>>
                    /\ ocr.text = attempts[FirstBest(attempts)].text

\* the candidate an orientation contributes: empty when preparing it or one
\* of its passes raises
Candidate(image, angle) ==
    LET text == IF angle # 0 /\ image.rotate_raises = angle THEN <<>>
                ELSE _ocr_attempt(image.reading[angle])
    IN  [angle |-> angle, text |-> text, score |-> _text_quality_score(text)]

\* C19: the engine never raises and a failure stays in its attempt: an
\* exception during a pass or during an orientation attempt, preparing the
\* orientation included, empties that attempt's candidate only; the other
\* orientations are still evaluated and the best of the candidates is
\* returned.
C19_FailureIsLocal ==
    Extracted =>
        LET original == Candidate(ocr.image, 0)
            candidates == <<original, Candidate(ocr.image, 90),
                            Candidate(ocr.image, 270), Candidate(ocr.image, 180)>>
        IN  IF RLe(Rat(5, 1), original.score)
            THEN ocr.text = original.text
            ELSE /\ Len(ocr.attempts) + (IF ocr.image.rotate_raises # 0 THEN 1 ELSE 0) = 4
                 /\ ocr.text = candidates[FirstBest(candidates)].text

\* C20: in each attempt the upscale factor is an integer of at least 1,
\* the one that brings the shorter of width and height nearest to 2000 px,
\* for portrait and landscape images alike.
C20_ScaleFromShorterSide ==
    (ocr.stage \in {"rotating", "returned"}) =>
        \A k \in DOMAIN ocr.attempts :
            LET shape == ocr.attempts[k].shape
                shorter == IF shape[1] < shape[2] THEN shape[1] ELSE shape[2]
                factor == ocr.attempts[k].scale
            IN  /\ factor >= 1
                /\ \A other \in 1..((2000 \div shorter) + 1) :
                       Abs(factor * shorter - 2000) <= Abs(other * shorter - 2000)

\* ------------------------------------------------------------------------
\* Properties of the /analyze-id-image endpoint and of Valid results
\* ------------------------------------------------------------------------

\* the checks of a list that carry the given name
ChecksNamed(checks, name) == {i \in DOMAIN checks : checks[i].name = name}

\* C21: for every request the /analyze-id-image endpoint handles, no claimed
\* ID number reaches the engine, so the response never contains an
\* "ID Number Format" check and decision rule 2 (format-invalid number) never
\* produces the outcome, in whichever position of a sequence of requests the
\* request comes.
C21_NoIdNumberThroughEndpoint ==
    (http.stage = "responded") =>
        /\ args.id_number = None
        /\ http.response.kind = "returned"
        /\ ChecksNamed(http.response.value.checks, "ID Number Format") = {}
        /\ \A i \in DOMAIN http.response.value.reasons :
               http.response.value.reasons[i].text
                   # "Please verify the {} number is entered correctly."
        /\ (result.kind = "returned" /\ locals.probed) =>
               /\ ~RuleHolds(2, locals.f)
               /\ FirstRule(locals.f) # 2
               /\ ChecksNamed(result.value.checks, "ID Number Format") = {}

\* an analysed request for a National ID, whose numbers must have 16 digits,
\* with a claimed name: the seven checks and "Name Match", decided by a rule
\* later than rule 2
C21_Witness ==
    /\ http.stage = "responded"
    /\ http.payload.id_type = Some(Str(0, "National ID", 0))
    /\ Truthy(http.payload.user_name)
    /\ result.kind = "returned"
    /\ locals.probed
    /\ locals.f.id_type_phrase = "National ID"
    /\ FirstRule(locals.f) > 2
    /\ CheckNames(http.response.value) = SevenChecks \o <<"Name Match">>

\* the names of the checks of a result that have status fail
FailingChecks(r) == {r.checks[i].name : i \in {j \in DOMAIN r.checks : r.checks[j].status = "fail"}}

\* C22 as stated: whenever analyze_id_image returns status Valid, no entry of
\* the returned checks list has status fail: a Valid result never carries a
\* failing "Name Match", "Printed Details", "Sharpness", "Selfie Signal",
\* "Screenshot Signal" or "ID Number Format" check.
C22_ValidHasNoFailingCheck ==
    (pc = "done" /\ result.kind = "returned" /\ result.value.status = "Valid") =>
        FailingChecks(result.value) = {}

\* C22 as amended: a Valid result never carries a failing "Sharpness",
\* "Selfie Signal", "Screenshot Signal" or "ID Number Format" check; the only
\* checks of a Valid result that can have status fail are "Printed Details",
\* and then a document shape was detected, and "Name Match", and then the
\* matcher's confidence is at most 0.2.
C22_ValidFailingChecksAreInconclusive ==
    (pc = "done" /\ result.kind = "returned" /\ result.value.status = "Valid") =>
        /\ locals.probed
        /\ FailingChecks(result.value) \subseteq {"Printed Details", "Name Match"}
        /\ "Printed Details" \in FailingChecks(result.value) =>
               locals.f.m.has_document_shape
        /\ "Name Match" \in FailingChecks(result.value) =>
               /\ locals.f.name_match_result # None
               /\ RLe(the(locals.f.name_match_result)[2], Rat(2, 10))

\* a shaped card without readable text whose name check found a mismatch of
\* confidence 2/11: Valid with both checks failing
C22_Witness ==
    /\ Analysed
    /\ result.value.status = "Valid"
    /\ FailingChecks(result.value) = {"Printed Details", "Name Match"}
    /\ locals.f.m.text_density = 5
    /\ the(locals.f.name_match_result)[2] = Rat(2, 11)
    /\ Truthy(args.id_number)

====
